---- MODULE Spec2Model ----
(***************************************************************************)
(* A model of stream.py: lazily-evaluated streams piped with '>>'.         *)
(*                                                                         *)
(* The module holds one group of variables per part of the library and one *)
(* specification per part:                                                 *)
(*   SpecTake   take / item: forced evaluation through a slice             *)
(*   SpecConn   what a connection does to cursors and to the upstream      *)
(*   SpecTee    tee: two branches over one shared buffer                   *)
(*   SpecReduce reduce: the running accumulation                          *)
(*   SpecPipe   Stream.pipe: how the right operand is connected            *)
(*   SpecTakei  takei: selection by a stream of indexes                    *)
(*   SpecDropi  dropi: exclusion by a stream of indexes                    *)
(*   SpecIndex  takei or dropi, one of them at work                        *)
(*   SpecChain  map, filter, prepend, append connected by >>               *)
(*   SpecFlatten  flatten: the generator of flattener.__call__             *)
(* A part's variables stay at their idle values under the other parts'     *)
(* specifications.                                                         *)
(***************************************************************************)
EXTENDS Integers, Sequences, FiniteSets, TLC

VARIABLES
    \* ---- take / item
    kind,          \* "take" | "item": the class of the stage
    slice,         \* self.slice: [start, stop, step], each None or Some(n)
    get1,          \* itemgetter.get1
    cache,         \* self.cache (meaningful when hasCache)
    hasCache,      \* FALSE while the attribute 'cache' was never assigned
    takeIterator,  \* self.iterator, as the list it iterates over
    inpipe,        \* the upstream of the connection under way (or the last one)
    pulled,        \* values the connection pulled from inpipe so far
    acc,           \* the list the pull loop is building
    pc,            \* "idle" | "full" | "some"
    result,        \* what the last connection returned or raised
    nconn,         \* connections made with this stage so far
    \* ---- connection: cursors and connection-time pulls
    kindD,         \* class of the downstream stage D
    kindB,         \* class of tee's streamobj (B), when D is a tee
    dropN,         \* n of drop(n), for D or B
    uIsStream,     \* whether the upstream is a Stream (U) or a bare iterator
    iterator,      \* the 'iterator' attribute of each stage: an object id
    pre,           \* the 'iterator' attributes just before the connection
    nextId,        \* next fresh object id
    srcPulled,     \* values pulled from the source so far
    connected,     \* whether the connection has been made
    returned,      \* what the connection returned
    consumerPulls, \* next() calls a consumer made on the connected stage
    \* ---- tee
    teeSrc,        \* the upstream's values
    teePred,       \* the predicate of the branch stage filter(pred)
    teePc,         \* "new" | "teed"
    srcPos,        \* values pulled from the upstream's iterator
    srcLog,        \* the upstream positions pulled, in order
    buf,           \* itertools.tee's shared buffer: values not yet read by both
    pos,           \* each branch's position in the upstream
    out,           \* what each side's consumer received
    ended,         \* whether each side's consumer saw StopIteration
    \* ---- reduce
    redSrc,        \* the upstream's values
    function,      \* self.function: "add" | "sub" | "mul"
    initval,       \* self.initval: None or Some(v)
    accumulated,   \* the generator's local 'accumulated'
    redPos,        \* values pulled from the upstream
    redOut,        \* values the generator yielded
    redPc,         \* "start" | "yielded" | "done"
    \* ---- Stream.pipe
    outpipe,       \* the right operand: its capabilities and content
    pipeIn,        \* the left operand's values
    pipeRes,       \* what pipe returned (kind "none" before the call)
    \* ---- takei
    mainSeq,       \* the main sequence: [inf, len, base]
    indices,       \* the index stream's values
    indexPos,      \* values pulled from self.indexiter
    mainPos,       \* values pulled from the main sequence
    counter,       \* values pulled from the position counter seq()
    idx,           \* the generator's local 'idx'
    old_idx,       \* the generator's local 'old_idx'
    tiOut,         \* values the generator yielded
    tiPc,          \* "start" | "yielded" | "done" ("idle" under other parts)
    \* ---- dropi
    diMain,        \* the main sequence: [inf, len, base]
    diIndices,     \* the index stream's values
    diIndexPos,    \* values pulled from self.indexiter
    diMainPos,     \* values pulled from the main sequence
    diCounter,     \* values pulled from the position counter seq()
    diIdx,         \* the generator's local 'idx'
    diOldIdx,      \* the generator's local 'old_idx'
    diExhausted,   \* the generator's local 'exhausted'
    diOut,         \* values the generator yielded
    diPc,          \* "start" | "yielded" | "done" ("idle" under other parts)
    \* ---- pipelines of map, filter, prepend and append
    chSrc,         \* the sources: [S1, S2 |-> [inf, len, base]]
    chStage,       \* the stages: [A, B |-> [kind, fn, own]]
    chHeap,        \* the iterator objects made so far, by identity
    chIter,        \* the 'iterator' attribute of every source and stage
    chPlan,        \* the connections the expression makes, in order
    chDone,        \* connections made
    chRes,         \* the object the last connection returned
    chOut,         \* values the consumer pulled from chRes
    chPc,          \* "connect" | "pull" | "done" ("idle" under other parts)
    \* ---- flatten
    flX,           \* the nested structure handed to the first flatten
    flInput,       \* the generator's inpipe: a sequence of elements
    flStack,       \* the generator's local 'stack'
    flCur,         \* the generator's local 'i': [items, pos, path]
    flOut,         \* values the generator yielded
    flFirst,       \* what the first generator yielded, once a second one runs
    flCalls,       \* flatten.__call__ invocations made
    flSteps,       \* passes through the generator's 'while True'
    flPc           \* "new" | "run" | "done" ("idle" under other parts)

takeVars == <<kind, slice, get1, cache, hasCache, takeIterator, inpipe, pulled,
              acc, pc, result, nconn>>
connVars == <<kindD, kindB, dropN, uIsStream, iterator, pre, nextId, srcPulled,
              connected, returned, consumerPulls>>
teeVars == <<teeSrc, teePred, teePc, srcPos, srcLog, buf, pos, out, ended>>
redVars == <<redSrc, function, initval, accumulated, redPos, redOut, redPc>>
pipeVars == <<outpipe, pipeIn, pipeRes>>
tiVars == <<mainSeq, indices, indexPos, mainPos, counter, idx, old_idx, tiOut, tiPc>>
dropiVars == <<diMain, diIndices, diIndexPos, diMainPos, diCounter, diIdx,
               diOldIdx, diExhausted, diOut, diPc>>
chainVars == <<chSrc, chStage, chHeap, chIter, chPlan, chDone, chRes, chOut,
               chPc>>
flatVars == <<flX, flInput, flStack, flCur, flOut, flFirst, flCalls, flSteps,
              flPc>>
moreVars == <<dropiVars, chainVars, flatVars>>
vars == <<takeVars, connVars, teeVars, redVars, pipeVars, tiVars, moreVars>>

(***************************************************************************)
(* Bounds of the model.                                                    *)
(***************************************************************************)
MaxIdx == 2        \* slice bounds range over -MaxIdx..MaxIdx
MaxStep == 2       \* slice steps range over -MaxStep..MaxStep
MaxLen == 3        \* longest finite upstream of take / item
MaxPull == 4       \* pulls followed on an infinite upstream
MaxConnects == 2   \* connections made with one take / item stage

(***************************************************************************)
(* Python values.                                                          *)
(***************************************************************************)
None == {}
Some(x) == {x}
Val(o) == CHOOSE x \in o : TRUE
Min(a, b) == IF a < b THEN a ELSE b
Max(a, b) == IF a > b THEN a ELSE b

\* bool(x) for x None or an integer
truthy(o) == o # None /\ Val(o) # 0

\* negative = lambda x: x and x<0, read as a condition
negative(o) == truthy(o) /\ Val(o) < 0

\* An upstream: xrange(base, base+len), or seq(base) when inf.
Upstreams(maxlen, bases) ==
    [inf : {FALSE}, len : 0..maxlen, base : bases]
        \cup [inf : {TRUE}, len : {0}, base : bases]
HasNext(u, k) == u.inf \/ k < u.len
Elem(u, k) == u.base + k
Items(u) == [k \in 1..u.len |-> Elem(u, k - 1)]

(***************************************************************************)
(* list[slice]: slice.indices(len), then the elements it walks.            *)
(***************************************************************************)
SliceIndices(s, n) ==
    LET step == IF s.step = None THEN 1 ELSE Val(s.step)
        lower == IF step < 0 THEN -1 ELSE 0
        upper == IF step < 0 THEN n - 1 ELSE n
        clip(o, dflt) ==
            IF o = None THEN dflt
            ELSE IF Val(o) < 0 THEN Max(Val(o) + n, lower)
            ELSE Min(Val(o), upper)
    IN  [start |-> clip(s.start, IF step < 0 THEN upper ELSE lower),
         stop |-> clip(s.stop, IF step < 0 THEN lower ELSE upper),
         step |-> step]

GetSlice(l, s) ==
    LET ix == SliceIndices(s, Len(l))
        cnt == IF ix.step > 0
               THEN IF ix.start < ix.stop
                    THEN (ix.stop - ix.start - 1) \div ix.step + 1 ELSE 0
               ELSE IF ix.stop < ix.start
                    THEN (ix.start - ix.stop - 1) \div (-ix.step) + 1 ELSE 0
    IN  [k \in 1..cnt |-> l[ix.start + (k - 1) * ix.step + 1]]

(***************************************************************************)
(* take and item.                                                          *)
(***************************************************************************)
OptIdx == {None} \cup {Some(n) : n \in -MaxIdx..MaxIdx}
OptStep == {None} \cup {Some(n) : n \in -MaxStep..MaxStep}
Slices == [start : OptIdx, stop : OptIdx, step : OptStep]

\* slice(n): what item[N] builds
Slice1(o) == [start |-> None, stop |-> o, step |-> None]

\* itemgetter.__getitem__ with an integer
GetItemInt(n) == IF n = -1 THEN Slice1(None) ELSE Slice1(Some(n + 1))

\* take.__call__: the condition that forces all evaluation
FullEval(s) ==
    \/ negative(s.stop)
    \/ negative(s.start)
    \/ ~(truthy(s.start) \/ truthy(s.stop))
    \/ (~truthy(s.start) /\ negative(s.step))
    \/ (~truthy(s.stop) /\ ~negative(s.step))

\* take.__call__: the local 'stop' of the partial evaluation
PullBound(s) == IF negative(s.step) THEN Val(s.start) ELSE Val(s.stop)

NoResult == [kind |-> "none", val |-> <<>>]

TakeInit ==
    /\ kind \in {"take", "item"}
    /\ \/ /\ slice \in Slices
          /\ get1 = FALSE
       \/ /\ kind = "item"
          /\ \E n \in -MaxIdx..MaxIdx : slice = GetItemInt(n)
          /\ get1 = TRUE
    /\ cache = <<>>
    /\ hasCache = (kind = "take")
    /\ takeIterator = <<>>
    /\ inpipe = [inf |-> FALSE, len |-> 0, base |-> 0]
    /\ pulled = 0
    /\ acc = <<>>
    /\ pc = "idle"
    /\ result = NoResult
    /\ nconn = 0

\* inpipe >> stage: Stream.pipe calls the stage's __pipe__, which calls
\* take.__call__
TakeConnect(u) ==
    /\ pc = "idle"
    /\ nconn < MaxConnects
    /\ inpipe' = u
    /\ pulled' = 0
    /\ acc' = <<>>
    /\ result' = NoResult
    /\ nconn' = nconn + 1
    /\ pc' = IF FullEval(slice) THEN "full" ELSE "some"
    /\ UNCHANGED <<kind, slice, get1, cache, hasCache, takeIterator>>

\* self.cache = self.cache[self.slice], then what __pipe__ returns
Finish(c, has) ==
    /\ pc' = "idle"
    /\ pulled' = pulled
    /\ acc' = <<>>
    /\ IF ~has
       THEN /\ result' = [kind |-> "AttributeError", val |-> <<>>]
            /\ UNCHANGED <<cache, hasCache, takeIterator>>
       ELSE IF slice.step = Some(0)
       THEN /\ result' = [kind |-> "ValueError", val |-> <<>>]
            /\ cache' = c
            /\ hasCache' = TRUE
            /\ UNCHANGED takeIterator
       ELSE LET sl == GetSlice(c, slice) IN
            /\ cache' = sl
            /\ hasCache' = TRUE
            /\ IF kind = "take"
               THEN /\ takeIterator' = sl
                    /\ result' = [kind |-> "Stream", val |-> sl]
               ELSE /\ UNCHANGED takeIterator
                    /\ result' =
                         IF ~get1 THEN [kind |-> "list", val |-> sl]
                         ELSE IF sl = <<>>
                         THEN [kind |-> "IndexError", val |-> <<>>]
                         ELSE [kind |-> "value", val |-> <<sl[Len(sl)]>>]

PullOne ==
    /\ pulled' = pulled + 1
    /\ acc' = Append(acc, Elem(inpipe, pulled))
    /\ UNCHANGED <<cache, hasCache, takeIterator, pc, result>>

\* self.cache = list(inpipe)
TakeFull ==
    /\ pc = "full"
    /\ IF HasNext(inpipe, pulled)
       THEN pulled < MaxPull /\ PullOne
       ELSE Finish(acc, TRUE)
    /\ UNCHANGED <<kind, slice, get1, inpipe, nconn>>

\* self.cache = [next(i) for _ in xrange(stop)], StopIteration passed over
TakeSome ==
    /\ pc = "some"
    /\ IF Len(acc) >= PullBound(slice)
       THEN Finish(acc, TRUE)
       ELSE IF HasNext(inpipe, pulled)
       THEN PullOne
       ELSE Finish(cache, hasCache)
    /\ UNCHANGED <<kind, slice, get1, inpipe, nconn>>

TakeBases == {0, 10}

TakeIdle ==
    /\ kind = "take"
    /\ slice = Slice1(None)
    /\ get1 = FALSE
    /\ cache = <<>>
    /\ hasCache = TRUE
    /\ takeIterator = <<>>
    /\ inpipe = [inf |-> FALSE, len |-> 0, base |-> 0]
    /\ pulled = 0
    /\ acc = <<>>
    /\ pc = "idle"
    /\ result = NoResult
    /\ nconn = 0

(***************************************************************************)
(* Connections: which cursor a connection replaces, and what it pulls from *)
(* the source while it is being made.  Iterator objects are ids; the       *)
(* source is xrange(ConnSrcLen), held by the upstream.                     *)
(***************************************************************************)
ConnSrcLen == 3        \* length of the source
MaxDropN == 2          \* n of drop(n), take(n), item[:n] ranges over 0..MaxDropN
MaxConsumerPulls == 2  \* next() calls followed after the connection
MaxBurst == 2          \* source values one next() of a skipping stage may pull

\* Stages whose __call__ only builds a generator or an itertools object
LazyKinds == {"takei", "dropi", "map", "filter", "apply", "takewhile",
              "dropwhile", "reduce", "prepend", "append", "flatten",
              "mapmethod", "generate"}
\* Stages that take a number
CountKinds == {"drop", "take", "item"}
BranchKinds == LazyKinds \cup CountKinds
Kinds == BranchKinds \cup {"tee"}

\* drop.__call__: collections.deque(itertools.islice(i, self.n), maxlen=0)
DropPulls(n, avail) == Min(n, avail)

\* take.__call__ of take(n) / item[:n]: values pulled from avail remaining ones
TakePulls(n, avail) ==
    IF FullEval(Slice1(Some(n))) THEN avail
    ELSE Min(PullBound(Slice1(Some(n))), avail)

\* k.__call__(inpipe): the iterator object it returns (up: the object
\* iter(inpipe) gives, fresh: a new object) and the values it pulls meanwhile
Call(k, n, up, fresh, avail) ==
    CASE k \in LazyKinds -> [ret |-> fresh, pulls |-> 0]
      [] k = "drop" -> [ret |-> up, pulls |-> DropPulls(n, avail)]
      [] OTHER -> [ret |-> fresh, pulls |-> TakePulls(n, avail)]

\* A __pipe__ that assigns the upstream's cursor instead of its own
StreamPipeUpstream(it, stage, ret) == [it EXCEPT !["U"] = ret]

\* Stream.__pipe__: self.iterator = self.__call__(inpipe); return self
StreamPipe(it, stage, ret) == [it EXCEPT ![stage] = ret]

\* itemgetter.__pipe__: the cursor is not assigned
ItemPipe(it, stage, ret) == it

\* __pipe__ of a stage of class k
PipeOf(k, it, stage, ret) ==
    IF k = "item" THEN ItemPipe(it, stage, ret) ELSE StreamPipe(it, stage, ret)

\* tee.__pipe__, after the branch was connected: inpipe.iterator = branch2
TeeRebind(it, branch2) ==
    IF uIsStream THEN [it EXCEPT !["U"] = branch2] ELSE it

ConnInit ==
    /\ kindD \in Kinds
    /\ kindB \in IF kindD = "tee" THEN BranchKinds ELSE {"none"}
    /\ dropN \in IF kindD \in CountKinds \/ kindB \in CountKinds
                 THEN 0..MaxDropN ELSE {0}
    /\ uIsStream \in BOOLEAN
    /\ iterator = [s \in {"U", "D", "B"} |-> CASE s = "U" -> 1
                                                [] s = "D" -> 2
                                                [] OTHER -> 3]
    /\ pre = iterator
    /\ nextId = 4
    /\ srcPulled = 0
    /\ connected = FALSE
    /\ returned = "none"
    /\ consumerPulls = 0

\* upstream >> D
Connect ==
    /\ ~connected
    /\ connected' = TRUE
    /\ pre' = iterator
    /\ IF kindD = "tee"
       THEN \* branch1, branch2 = itertools.tee(inpipe); Stream.pipe(branch1,
            \* self.streamobj); then the upstream is rebound or wrapped
            LET branch1 == nextId
                branch2 == nextId + 1
                c == Call(kindB, dropN, branch1, nextId + 2, ConnSrcLen)
            IN  /\ iterator' = TeeRebind(PipeOf(kindB, iterator, "B", c.ret),
                                         branch2)
                /\ srcPulled' = c.pulls
                /\ nextId' = nextId + 3
                /\ returned' = IF uIsStream THEN "U" ELSE "Stream(branch2)"
       ELSE LET c == Call(kindD, dropN, iterator["U"], nextId, ConnSrcLen)
            IN  /\ iterator' = PipeOf(kindD, iterator, "D", c.ret)
                /\ srcPulled' = c.pulls
                /\ nextId' = nextId + 1
                /\ returned' = IF kindD = "item" THEN "list" ELSE "D"
    /\ UNCHANGED <<kindD, kindB, dropN, uIsStream, consumerPulls>>

\* Source values one next() on the connected stage may pull
NextPulls(k) ==
    CASE k \in {"map", "apply", "mapmethod", "takewhile", "append", "drop",
                "generate"} -> {1}
      [] k \in {"filter", "dropwhile", "takei", "dropi", "flatten"}
           -> 1..MaxBurst
      [] k \in {"reduce", "prepend", "tee"} -> {0, 1}
      [] OTHER -> {0}

\* A consumer calls next() on what the connection returned
ConsumerPull ==
    /\ connected
    /\ returned # "list"
    /\ consumerPulls < MaxConsumerPulls
    /\ consumerPulls' = consumerPulls + 1
    /\ \E k \in NextPulls(kindD) \cup
                   (IF srcPulled = ConnSrcLen THEN {0} ELSE {}) :
          /\ srcPulled + k <= ConnSrcLen
          /\ srcPulled' = srcPulled + k
    /\ UNCHANGED <<kindD, kindB, dropN, uIsStream, iterator, pre, nextId,
                   connected, returned>>

ConnIdle ==
    /\ kindD = "map"
    /\ kindB = "none"
    /\ dropN = 0
    /\ uIsStream = TRUE
    /\ iterator = [s \in {"U", "D", "B"} |-> 0]
    /\ pre = iterator
    /\ nextId = 0
    /\ srcPulled = 0
    /\ connected = FALSE
    /\ returned = "none"
    /\ consumerPulls = 0

(***************************************************************************)
(* tee: itertools.tee(inpipe) gives two branches over one buffer; branch1  *)
(* is piped into self.streamobj, here filter(pred); branch2 is the main    *)
(* line.                                                                   *)
(***************************************************************************)
MaxTeeLen == 3    \* longest upstream
MaxTeeVal == 2    \* upstream values range over 0..MaxTeeVal

SeqsUpTo(S, n) == UNION {[1..k -> S] : k \in 0..n}

Preds == {"even", "mod3", "all"}
Holds(p, x) ==
    CASE p = "even" -> x % 2 = 0
      [] p = "mod3" -> x % 3 = 0
      [] OTHER -> TRUE

Other(side) == IF side = "main" THEN "branch" ELSE "main"

\* the part of the tee state one read changes
TeeState == [srcPos |-> srcPos, srcLog |-> srcLog, buf |-> buf, pos |-> pos]

\* A branch without the buffer: every read pulls from the upstream
TeeReadUnbuffered(ts, side) ==
    IF ts.srcPos < Len(teeSrc)
    THEN [ok |-> TRUE, val |-> teeSrc[ts.srcPos + 1],
          ts |-> [ts EXCEPT !.srcPos = @ + 1,
                            !.srcLog = Append(@, ts.srcPos + 1),
                            !.pos[side] = @ + 1]]
    ELSE [ok |-> FALSE, val |-> 0, ts |-> ts]

\* next() on one branch of itertools.tee: a buffered value if the other
\* branch is ahead, else a value pulled from the upstream and buffered for
\* the other branch; values both branches have read leave the buffer
TeeRead(ts, side) ==
    LET base == ts.srcPos - Len(ts.buf)
        p == ts.pos[side]
        trim(b, newpos, newsrc) ==
            LET low == Min(newpos[side], newpos[Other(side)])
                keep == newsrc - low
            IN  SubSeq(b, Len(b) - keep + 1, Len(b))
    IN  IF p < ts.srcPos
        THEN LET np == [ts.pos EXCEPT ![side] = @ + 1]
             IN  [ok |-> TRUE, val |-> ts.buf[p - base + 1],
                  ts |-> [ts EXCEPT !.pos = np,
                                    !.buf = trim(ts.buf, np, ts.srcPos)]]
        ELSE IF ts.srcPos < Len(teeSrc)
        THEN LET np == [ts.pos EXCEPT ![side] = @ + 1]
                 v == teeSrc[ts.srcPos + 1]
             IN  [ok |-> TRUE, val |-> v,
                  ts |-> [srcPos |-> ts.srcPos + 1,
                          srcLog |-> Append(ts.srcLog, ts.srcPos + 1),
                          pos |-> np,
                          buf |-> trim(Append(ts.buf, v), np, ts.srcPos + 1)]]
        ELSE [ok |-> FALSE, val |-> 0, ts |-> ts]

\* next() on itertools.ifilter(pred, branch1)
RECURSIVE FilterNext(_)
FilterNext(ts) ==
    LET r == TeeRead(ts, "branch")
    IN  IF ~r.ok \/ Holds(teePred, r.val) THEN r ELSE FilterNext(r.ts)

TeeInit ==
    /\ teeSrc \in SeqsUpTo(0..MaxTeeVal, MaxTeeLen)
    /\ teePred \in Preds
    /\ teePc = "new"
    /\ srcPos = 0
    /\ srcLog = <<>>
    /\ buf = <<>>
    /\ pos = [s \in {"main", "branch"} |-> 0]
    /\ out = [s \in {"main", "branch"} |-> <<>>]
    /\ ended = [s \in {"main", "branch"} |-> FALSE]

\* inpipe >> tee(filter(pred)): tee.__pipe__
TeeConnect ==
    /\ teePc = "new"
    /\ teePc' = "teed"
    /\ UNCHANGED <<teeSrc, teePred, srcPos, srcLog, buf, pos, out, ended>>

TeeDeliver(side, r) ==
    /\ srcPos' = r.ts.srcPos
    /\ srcLog' = r.ts.srcLog
    /\ buf' = r.ts.buf
    /\ pos' = r.ts.pos
    /\ out' = IF r.ok THEN [out EXCEPT ![side] = Append(@, r.val)] ELSE out
    /\ ended' = IF r.ok THEN ended ELSE [ended EXCEPT ![side] = TRUE]
    /\ UNCHANGED <<teeSrc, teePred, teePc>>

\* a consumer calls next() on the main line
PullMain ==
    /\ teePc = "teed"
    /\ ~ended["main"]
    /\ TeeDeliver("main", TeeRead(TeeState, "main"))

\* a consumer calls next() on the branch stage
PullBranch ==
    /\ teePc = "teed"
    /\ ~ended["branch"]
    /\ TeeDeliver("branch", FilterNext(TeeState))

TeeIdle ==
    /\ teeSrc = <<>>
    /\ teePred = "all"
    /\ teePc = "new"
    /\ srcPos = 0
    /\ srcLog = <<>>
    /\ buf = <<>>
    /\ pos = [s \in {"main", "branch"} |-> 0]
    /\ out = [s \in {"main", "branch"} |-> <<>>]
    /\ ended = [s \in {"main", "branch"} |-> FALSE]

(***************************************************************************)
(* reduce: the generator of reduce.__call__.                               *)
(***************************************************************************)
MaxRedLen == 3    \* longest upstream
MaxRedVal == 2    \* upstream and initial values range over 0..MaxRedVal

Functions == {"add", "sub", "mul"}
Apply2(f, a, b) ==
    CASE f = "add" -> a + b
      [] f = "sub" -> a - b
      [] OTHER -> a * b

RedInit ==
    /\ redSrc \in SeqsUpTo(0..MaxRedVal, MaxRedLen)
    /\ function \in Functions
    /\ initval \in {None} \cup {Some(v) : v \in 0..MaxRedVal}
    /\ accumulated = 0
    /\ redPos = 0
    /\ redOut = <<>>
    /\ redPc = "start"

\* if self.initval:
UseInitval(o) == truthy(o)

\* one next() on the generator: up to its next yield, or to the
\* StopIteration of next(i)
ReduceNext ==
    /\ redPc \in {"start", "yielded"}
    /\ IF redPc = "start" /\ UseInitval(initval)
       THEN /\ accumulated' = Val(initval)
            /\ redOut' = Append(redOut, Val(initval))
            /\ redPc' = "yielded"
            /\ UNCHANGED redPos
       ELSE IF redPos >= Len(redSrc)
       THEN /\ redPc' = "done"
            /\ UNCHANGED <<accumulated, redOut, redPos>>
       ELSE LET val == redSrc[redPos + 1]
                a == IF redPc = "start" THEN val
                     ELSE Apply2(function, accumulated, val)
            IN  /\ accumulated' = a
                /\ redOut' = Append(redOut, a)
                /\ redPos' = redPos + 1
                /\ redPc' = "yielded"
    /\ UNCHANGED <<redSrc, function, initval>>

RedIdle ==
    /\ redSrc = <<>>
    /\ function = "add"
    /\ initval = None
    /\ accumulated = 0
    /\ redPos = 0
    /\ redOut = <<>>
    /\ redPc = "start"

(***************************************************************************)
(* Stream.pipe(inpipe, outpipe).  The right operand is described by what   *)
(* pipe asks of it: whether it has __pipe__, whether it has __call__,      *)
(* whether it is a Stream, whether it is iterable, its truth value, and    *)
(* what it holds or computes.                                              *)
(***************************************************************************)
MaxPipeLen == 2   \* longest left operand and longest content of the right one
MaxPipeVal == 1   \* their values range over 0..MaxPipeVal

\* what the right operand's __call__ computes from the upstream's values
Callables == {"list", "len", "next"}
ApplyFn(fn, xs) ==
    CASE fn = "list" -> [ty |-> "list", val |-> xs]
      [] fn = "len" -> [ty |-> "int", val |-> <<Len(xs)>>]
      [] OTHER -> IF xs = <<>> THEN [ty |-> "StopIteration", val |-> <<>>]
                  ELSE [ty |-> "value", val |-> <<xs[1]>>]

Outpipes ==
    [hasPipe : BOOLEAN, hasCall : BOOLEAN, isStream : BOOLEAN,
     iterable : BOOLEAN, truth : BOOLEAN, fn : Callables,
     items : SeqsUpTo(0..MaxPipeVal, MaxPipeLen)]

NoPipeRes == [via |-> "none", obj |-> "none", ty |-> "none", val |-> <<>>]

\* outpipe.__pipe__(inpipe): Stream.__pipe__ for a Stream (self.iterator =
\* self.__call__(inpipe); return self), the object's own method otherwise
PipeMethod(inp, o) ==
    IF ~o.hasCall
    THEN [via |-> "__pipe__", obj |-> "error", ty |-> "AttributeError",
          val |-> <<>>]
    ELSE LET r == ApplyFn(o.fn, inp)
         IN  [via |-> "__pipe__", obj |-> IF o.isStream THEN "outpipe" ELSE "raw",
              ty |-> r.ty, val |-> r.val]

\* outpipe.__call__(inpipe): what it returns is what pipe returns
CallMethod(inp, o) ==
    LET r == ApplyFn(o.fn, inp)
    IN  [via |-> "__call__", obj |-> "raw", ty |-> r.ty, val |-> r.val]

\* Stream(outpipe): iter(iterable if iterable else [])
StreamInit(o) ==
    IF ~o.truth THEN [via |-> "none", obj |-> "Stream", ty |-> "list",
                      val |-> <<>>]
    ELSE IF ~o.iterable THEN [via |-> "none", obj |-> "error",
                              ty |-> "TypeError", val |-> <<>>]
    ELSE [via |-> "none", obj |-> "Stream", ty |-> "list", val |-> o.items]

\* Stream.pipe with the two capability tests in the other order
pipeCallFirst(inp, o) ==
    IF o.hasCall THEN CallMethod(inp, o)
    ELSE IF o.hasPipe THEN PipeMethod(inp, o)
    ELSE IF o.isStream
    THEN [via |-> "none", obj |-> "outpipe", ty |-> "list", val |-> o.items]
    ELSE StreamInit(o)

\* Stream.pipe
pipe(inp, o) ==
    IF o.hasPipe THEN PipeMethod(inp, o)
    ELSE IF o.hasCall THEN CallMethod(inp, o)
    ELSE IF o.isStream
    THEN [via |-> "none", obj |-> "outpipe", ty |-> "list", val |-> o.items]
    ELSE StreamInit(o)

PipeInit ==
    /\ outpipe \in Outpipes
    /\ pipeIn \in SeqsUpTo(0..MaxPipeVal, MaxPipeLen)
    /\ pipeRes = NoPipeRes

\* inpipe >> outpipe
PipeCall ==
    /\ pipeRes.obj = "none"
    /\ pipeRes' = pipe(pipeIn, outpipe)
    /\ UNCHANGED <<outpipe, pipeIn>>

PipeIdle ==
    /\ outpipe = [hasPipe |-> FALSE, hasCall |-> FALSE, isStream |-> FALSE,
                  iterable |-> TRUE, truth |-> FALSE, fn |-> "list",
                  items |-> <<>>]
    /\ pipeIn = <<>>
    /\ pipeRes = NoPipeRes

(***************************************************************************)
(* takei: the generator of takei.__call__.                                 *)
(***************************************************************************)
MaxIndices == 4   \* longest index stream
MaxIndexVal == 3  \* indexes range over -1..MaxIndexVal
MaxMainLen == 3   \* longest finite main sequence

\* old_idx = 0: index 0 would count as already taken
InitialOldIdxFrom0 == 1 - 1

\* old_idx = -1
InitialOldIdx == -1

TiState == [indexPos |-> indexPos, mainPos |-> mainPos, counter |-> counter,
            idx |-> idx, old_idx |-> old_idx, out |-> tiOut, pc |-> tiPc]

TiDone(st) == [st EXCEPT !.pc = "done"]

\* idx = next(self.indexiter); StopIteration ends the generator
NextIndex(st) ==
    IF st.indexPos < Len(indices)
    THEN [st EXCEPT !.idx = indices[st.indexPos + 1], !.indexPos = @ + 1]
    ELSE TiDone(st)

\* while idx <= old_idx: idx = next(self.indexiter)
RECURSIVE SkipBad(_)
SkipBad(st) ==
    IF st.pc # "done" /\ st.idx <= st.old_idx
    THEN SkipBad(NextIndex(st))
    ELSE st

\* the body of 'while 1', repeated up to the next yield
RECURSIVE TakeiLoop(_)
TakeiLoop(st) ==
    IF ~HasNext(mainSeq, st.mainPos) THEN TiDone([st EXCEPT !.counter = @ + 1])
    ELSE LET c == st.counter
             elem == Elem(mainSeq, st.mainPos)
             s1 == SkipBad([st EXCEPT !.counter = @ + 1, !.mainPos = @ + 1])
         IN  IF s1.pc = "done" THEN s1
             ELSE IF c = s1.idx
             THEN [s1 EXCEPT !.out = Append(@, elem), !.pc = "yielded"]
             ELSE TakeiLoop(s1)

\* one next() on the generator
TakeiStep(st) ==
    IF st.pc = "start"
    THEN LET s1 == NextIndex([st EXCEPT !.old_idx = InitialOldIdx, !.pc = "run"])
         IN  IF s1.pc = "done" THEN s1 ELSE TakeiLoop(s1)
    ELSE LET s1 == NextIndex([st EXCEPT !.old_idx = st.idx, !.pc = "run"])
         IN  IF s1.pc = "done" THEN s1 ELSE TakeiLoop(s1)

TiMainBases == {5}

TiInit ==
    /\ mainSeq \in Upstreams(MaxMainLen, TiMainBases)
    /\ indices \in SeqsUpTo(-1..MaxIndexVal, MaxIndices)
    /\ indexPos = 0
    /\ mainPos = 0
    /\ counter = 0
    /\ idx = 0
    /\ old_idx = 0
    /\ tiOut = <<>>
    /\ tiPc = "start"

TakeiNext ==
    /\ tiPc \in {"start", "yielded"}
    /\ LET s1 == TakeiStep(TiState)
       IN  /\ indexPos' = s1.indexPos
           /\ mainPos' = s1.mainPos
           /\ counter' = s1.counter
           /\ idx' = s1.idx
           /\ old_idx' = s1.old_idx
           /\ tiOut' = s1.out
           /\ tiPc' = s1.pc
    /\ UNCHANGED <<mainSeq, indices>>

TiIdle ==
    /\ mainSeq = [inf |-> FALSE, len |-> 0, base |-> 0]
    /\ indices = <<>>
    /\ indexPos = 0
    /\ mainPos = 0
    /\ counter = 0
    /\ idx = 0
    /\ old_idx = 0
    /\ tiOut = <<>>
    /\ tiPc = "idle"

(***************************************************************************)
(* dropi: the generator of dropi.__call__.                                 *)
(***************************************************************************)
MaxDiPull == 4    \* pulls followed on an infinite main sequence

DiState == [indexPos |-> diIndexPos, mainPos |-> diMainPos,
            counter |-> diCounter, idx |-> diIdx, old_idx |-> diOldIdx,
            exhausted |-> diExhausted, out |-> diOut, pc |-> diPc]

\* A try_next_idx that lets StopIteration end the generator, as takei does
try_next_idx_stop(st) ==
    IF st.indexPos < Len(diIndices)
    THEN [st EXCEPT !.idx = diIndices[st.indexPos + 1], !.indexPos = @ + 1,
                    !.exhausted = FALSE]
    ELSE [st EXCEPT !.pc = "done"]

\* idx, exhausted = try_next_idx(): (next(self.indexiter), False), or
\* (-1, True) once the index stream is exhausted
try_next_idx(st) ==
    IF st.indexPos < Len(diIndices)
    THEN [st EXCEPT !.idx = diIndices[st.indexPos + 1], !.indexPos = @ + 1,
                    !.exhausted = FALSE]
    ELSE [st EXCEPT !.idx = -1, !.exhausted = TRUE]

\* A test that lets an index equal to the last accepted one stay pending
DiBadIndexStrict(st) == ~st.exhausted /\ st.idx < st.old_idx

\* not exhausted and idx <= old_idx
DiBadIndex(st) == ~st.exhausted /\ st.idx <= st.old_idx

\* while not exhausted and idx <= old_idx: idx, exhausted = try_next_idx()
RECURSIVE DiSkipBad(_)
DiSkipBad(st) ==
    IF st.pc # "done" /\ DiBadIndex(st) THEN DiSkipBad(try_next_idx(st)) ELSE st

\* the body of 'while 1', repeated up to the next yield
RECURSIVE DropiLoop(_)
DropiLoop(st) ==
    IF ~HasNext(diMain, st.mainPos)
    THEN [st EXCEPT !.counter = @ + 1, !.pc = "done"]
    ELSE LET c == st.counter
             elem == Elem(diMain, st.mainPos)
             s1 == DiSkipBad([st EXCEPT !.counter = @ + 1, !.mainPos = @ + 1])
         IN  IF s1.pc = "done" THEN s1
             ELSE IF c # s1.idx
             THEN [s1 EXCEPT !.out = Append(@, elem), !.pc = "yielded"]
             ELSE IF ~s1.exhausted
             THEN LET s2 == try_next_idx([s1 EXCEPT !.old_idx = s1.idx])
                  IN  IF s2.pc = "done" THEN s2 ELSE DropiLoop(s2)
             ELSE DropiLoop(s1)

\* one next() on the generator
DropiStep(st) ==
    IF st.pc = "start"
    THEN LET s1 == try_next_idx([st EXCEPT !.old_idx = -1, !.pc = "run"])
         IN  IF s1.pc = "done" THEN s1 ELSE DropiLoop(s1)
    ELSE DropiLoop([st EXCEPT !.pc = "run"])

DiInit ==
    /\ diMain \in Upstreams(MaxMainLen, TiMainBases)
    /\ diIndices \in SeqsUpTo(-1..MaxIndexVal, MaxIndices)
    /\ diIndexPos = 0
    /\ diMainPos = 0
    /\ diCounter = 0
    /\ diIdx = 0
    /\ diOldIdx = 0
    /\ diExhausted = FALSE
    /\ diOut = <<>>
    /\ diPc = "start"

DropiNext ==
    /\ diPc \in {"start", "yielded"}
    /\ diMainPos < MaxDiPull
    /\ LET s1 == DropiStep(DiState)
       IN  /\ diIndexPos' = s1.indexPos
           /\ diMainPos' = s1.mainPos
           /\ diCounter' = s1.counter
           /\ diIdx' = s1.idx
           /\ diOldIdx' = s1.old_idx
           /\ diExhausted' = s1.exhausted
           /\ diOut' = s1.out
           /\ diPc' = s1.pc
    /\ UNCHANGED <<diMain, diIndices>>

DiIdle ==
    /\ diMain = [inf |-> FALSE, len |-> 0, base |-> 0]
    /\ diIndices = <<>>
    /\ diIndexPos = 0
    /\ diMainPos = 0
    /\ diCounter = 0
    /\ diIdx = 0
    /\ diOldIdx = 0
    /\ diExhausted = FALSE
    /\ diOut = <<>>
    /\ diPc = "idle"

(***************************************************************************)
(* Pipelines of map, filter, prepend and append.  An iterator object is a  *)
(* record of chHeap: a list iterator (items, pos), an imap or ifilter (fn, *)
(* up), or a chain (parts, pos = parts used up, up = the active part).  A  *)
(* part of a chain is an iterator (id) or an object whose __iter__ the     *)
(* chain calls when it reaches the part (nm).                              *)
(***************************************************************************)
MaxChLen == 3     \* elements of a source
MaxOwn == 2       \* elements a prepend or append stage holds

MapFns == {"inc", "dbl"}
Apply1(f, x) == IF f = "inc" THEN x + 1 ELSE 2 * x

StageNames == {"A", "B"}
OwnBase(nm) == IF nm = "A" THEN 20 ELSE 30
OwnItems(nm, n) == [k \in 1..n |-> OwnBase(nm) + k - 1]
StageKinds ==
    [kind : {"map"}, fn : MapFns, own : {0}]
        \cup [kind : {"filter"}, fn : {"even", "mod3"}, own : {0}]
        \cup [kind : {"prepend", "append"}, fn : {"none"}, own : 0..MaxOwn]

ListIter(xs) ==
    [op |-> "list", fn |-> "none", up |-> 0, items |-> xs, pos |-> 0,
     parts |-> <<>>]
FnIter(op, f, up) ==
    [op |-> op, fn |-> f, up |-> up, items |-> <<>>, pos |-> 0,
     parts |-> <<>>]
ChainIter(p1, p2) ==
    [op |-> "chain", fn |-> "none", up |-> 0, items |-> <<>>, pos |-> 0,
     parts |-> <<p1, p2>>]
ById(id) == [nm |-> "", id |-> id]
ByName(nm) == [nm |-> nm, id |-> 0]

\* An ifilterfalse: the elements the predicate rejects
IFilterFalseKeeps(f, x) == ~Holds(f, x)

\* itertools.ifilter(function, inpipe) passes the elements the function holds of
IFilterKeeps(f, x) == Holds(f, x)

\* A chain that draws its parts in the opposite order
ChainNextPartBackwards(o) == o.parts[Len(o.parts) - o.pos]

\* the part a chain turns to next
ChainNextPart(o) == o.parts[o.pos + 1]

\* next(iterator id) on heap h, with 'it' the iterator attributes:
\* [ok, val, h]; ok is FALSE for StopIteration
RECURSIVE HNext(_, _, _)
HNext(h, it, id) ==
    LET o == h[id]
        stop == [ok |-> FALSE, val |-> 0, h |-> h]
    IN  CASE o.op = "list" ->
                IF o.pos < Len(o.items)
                THEN [ok |-> TRUE, val |-> o.items[o.pos + 1],
                      h |-> [h EXCEPT ![id].pos = @ + 1]]
                ELSE stop
          [] o.op = "imap" ->
                LET r == HNext(h, it, o.up)
                IN  IF r.ok THEN [r EXCEPT !.val = Apply1(o.fn, r.val)] ELSE r
          [] o.op = "ifilter" ->
                LET r == HNext(h, it, o.up)
                IN  IF ~r.ok \/ IFilterKeeps(o.fn, r.val) THEN r
                    ELSE HNext(r.h, it, id)
          [] OTHER ->
                IF o.up = 0
                THEN IF o.pos = Len(o.parts) THEN stop
                     ELSE LET part == ChainNextPart(o)
                              act == IF part.nm = "" THEN part.id
                                     ELSE it[part.nm]
                          IN  HNext([h EXCEPT ![id].up = act], it, id)
                ELSE LET r == HNext(h, it, o.up)
                     IN  IF r.ok THEN r
                         ELSE HNext([r.h EXCEPT ![id].up = 0,
                                                ![id].pos = @ + 1], it, id)

\* stage.__call__(inpipe): the iterator object the stage builds
StageCall(nm, inp) ==
    LET st == chStage[nm]
    IN  CASE st.kind = "map" -> FnIter("imap", st.fn, chIter[inp])
          [] st.kind = "filter" -> FnIter("ifilter", st.fn, chIter[inp])
          [] st.kind = "prepend" -> ChainIter(ById(chIter[nm]), ByName(inp))
          [] OTHER -> ChainIter(ByName(inp), ById(chIter[nm]))

Plans ==
    { << <<"S1", "A">> >>,
      << <<"S1", "A">>, <<"A", "B">> >>,
      << <<"A", "B">>, <<"S1", "B">> >>,
      << <<"S1", "A">>, <<"S2", "A">> >> }
Uses(plan, nm) == \E k \in 1..Len(plan) : nm \in {plan[k][1], plan[k][2]}

NoStage == [kind |-> "map", fn |-> "inc", own |-> 0]
NoSource == [inf |-> FALSE, len |-> 0, base |-> 0]

ChInit ==
    /\ chPlan \in Plans
    /\ \E s1 \in 0..MaxChLen, s2 \in 0..MaxChLen, a \in StageKinds,
          b \in StageKinds :
          /\ Uses(chPlan, "S2") \/ s2 = 0
          /\ Uses(chPlan, "B") \/ b = NoStage
          /\ chSrc = [S1 |-> [inf |-> FALSE, len |-> s1, base |-> 0],
                      S2 |-> [inf |-> FALSE, len |-> s2, base |-> 10]]
          /\ chStage = [A |-> a, B |-> b]
    /\ chHeap = << ListIter(Items(chSrc.S1)), ListIter(Items(chSrc.S2)),
                   ListIter(OwnItems("A", chStage.A.own)),
                   ListIter(OwnItems("B", chStage.B.own)) >>
    /\ chIter = [S1 |-> 1, S2 |-> 2, A |-> 3, B |-> 4]
    /\ chDone = 0
    /\ chRes = ""
    /\ chOut = <<>>
    /\ chPc = "connect"

\* inpipe >> outpipe: Stream.pipe, then outpipe.__pipe__(inpipe)
ChConnect ==
    /\ chPc = "connect"
    /\ LET inp == chPlan[chDone + 1][1]
           outp == chPlan[chDone + 1][2]
       IN  /\ chHeap' = Append(chHeap, StageCall(outp, inp))
           /\ chIter' = [chIter EXCEPT ![outp] = Len(chHeap) + 1]
           /\ chRes' = outp
    /\ chDone' = chDone + 1
    /\ chPc' = IF chDone + 1 = Len(chPlan) THEN "pull" ELSE "connect"
    /\ UNCHANGED <<chSrc, chStage, chPlan, chOut>>

\* the consumer's next() on the expression's result
ChPull ==
    /\ chPc = "pull"
    /\ LET r == HNext(chHeap, chIter, chIter[chRes])
       IN  /\ chHeap' = r.h
           /\ chOut' = IF r.ok THEN Append(chOut, r.val) ELSE chOut
           /\ chPc' = IF r.ok THEN "pull" ELSE "done"
    /\ UNCHANGED <<chSrc, chStage, chIter, chPlan, chDone, chRes>>

ChIdle ==
    /\ chSrc = [S1 |-> NoSource, S2 |-> NoSource]
    /\ chStage = [A |-> NoStage, B |-> NoStage]
    /\ chHeap = <<>>
    /\ chIter = [S1 |-> 0, S2 |-> 0, A |-> 0, B |-> 0]
    /\ chPlan = <<>>
    /\ chDone = 0
    /\ chRes = ""
    /\ chOut = <<>>
    /\ chPc = "idle"

(***************************************************************************)
(* flatten.  An element is [t, v, c]: an integer (t = "int", value v), a   *)
(* text (t = "text") or a list (t = "list", elements c).  A cursor is a    *)
(* list iterator [items, pos]; its path tells where its list sits in the   *)
(* input: the positions, from the top, of the lists that enclose it.       *)
(***************************************************************************)
MaxNodes == 5     \* elements of the input, at all depths together

Atoms == {[t |-> "int", v |-> 1, c |-> <<>>], [t |-> "text", v |-> 0, c |-> <<>>]}
ListOf(f) == [t |-> "list", v |-> 0, c |-> f]

\* the sequences of elements with n elements in all
RECURSIVE Forest(_)
RECURSIVE TreesOf(_)
Forest(n) ==
    IF n = 0 THEN {<<>>}
    ELSE UNION {{<<e>> \o f : e \in TreesOf(k), f \in Forest(n - k)} : k \in 1..n}
TreesOf(k) ==
    IF k = 1 THEN Atoms \cup {ListOf(<<>>)}
    ELSE {ListOf(f) : f \in Forest(k - 1)}

Cursor(items, path) == [items |-> items, pos |-> 0, path |-> path]

\* hasattr(e, "__iter__"): a list has the attribute, an integer and a
\* Python 2 text have not
HasIterAttr(e) == e.t = "list"
\* isinstance(e, basestring)
IsBasestring(e) == e.t = "text"
\* hasattr(e, "__iter__") and not isinstance(e, basestring)
Descends(e) == HasIterAttr(e) /\ ~IsBasestring(e)

FlState == [stack |-> flStack, i |-> flCur, out |-> flOut, pc |-> flPc]

\* A flatten of one level: below the top, lists are yielded as they are
FlElemShallow(st, e) ==
    IF Descends(e) /\ st.stack = <<>>
    THEN [st EXCEPT !.stack = Append(@, st.i),
                    !.i = Cursor(e.c, Append(st.i.path, st.i.pos))]
    ELSE [st EXCEPT !.out = Append(@, e)]

\* the element e just drawn from st.i: descend into it or yield it
FlElem(st, e) ==
    IF Descends(e)
    THEN [st EXCEPT !.stack = Append(@, st.i),
                    !.i = Cursor(e.c, Append(st.i.path, st.i.pos))]
    ELSE [st EXCEPT !.out = Append(@, e)]

\* A pop from the bottom of the stack
PopFirst(stack) == [i |-> stack[1], stack |-> Tail(stack)]

\* i = stack.pop()
Pop(stack) ==
    [i |-> stack[Len(stack)], stack |-> SubSeq(stack, 1, Len(stack) - 1)]

\* one pass through 'while True'
FlStep(st) ==
    IF st.i.pos < Len(st.i.items)
    THEN FlElem([st EXCEPT !.i.pos = @ + 1], st.i.items[st.i.pos + 1])
    ELSE IF st.stack # <<>>
    THEN LET p == Pop(st.stack)
         IN  [st EXCEPT !.i = p.i, !.stack = p.stack]
    ELSE [st EXCEPT !.pc = "done"]

FlInit ==
    /\ flX \in UNION {Forest(n) : n \in 0..MaxNodes}
    /\ flInput = <<>>
    /\ flStack = <<>>
    /\ flCur = Cursor(<<>>, <<>>)
    /\ flOut = <<>>
    /\ flFirst = <<>>
    /\ flCalls = 0
    /\ flSteps = 0
    /\ flPc = "new"

\* flatten(inpipe): on the input, then on what the first generator yielded
FlCall ==
    /\ flPc = "new" \/ (flPc = "done" /\ flCalls = 1)
    /\ flCalls' = flCalls + 1
    /\ flInput' = IF flCalls = 0 THEN flX ELSE flOut
    /\ flFirst' = flOut
    /\ flStack' = <<>>
    /\ flCur' = Cursor(flInput', <<>>)
    /\ flOut' = <<>>
    /\ flSteps' = 0
    /\ flPc' = "run"
    /\ UNCHANGED flX

FlattenNext ==
    /\ flPc = "run"
    /\ LET s1 == FlStep(FlState)
       IN  /\ flStack' = s1.stack
           /\ flCur' = s1.i
           /\ flOut' = s1.out
           /\ flPc' = s1.pc
    /\ flSteps' = flSteps + 1
    /\ UNCHANGED <<flX, flInput, flFirst, flCalls>>

FlIdle ==
    /\ flX = <<>>
    /\ flInput = <<>>
    /\ flStack = <<>>
    /\ flCur = Cursor(<<>>, <<>>)
    /\ flOut = <<>>
    /\ flFirst = <<>>
    /\ flCalls = 0
    /\ flSteps = 0
    /\ flPc = "idle"

MoreIdle == DiIdle /\ ChIdle /\ FlIdle

(***************************************************************************)
(* The specifications.                                                     *)
(***************************************************************************)
InitTake ==
    TakeInit /\ ConnIdle /\ TeeIdle /\ RedIdle /\ PipeIdle /\ TiIdle
        /\ MoreIdle
notTake == <<connVars, teeVars, redVars, pipeVars, tiVars, moreVars>>
NextTake ==
    \/ (\E u \in Upstreams(MaxLen, TakeBases) : TakeConnect(u))
          /\ UNCHANGED notTake
    \/ TakeFull /\ UNCHANGED notTake
    \/ TakeSome /\ UNCHANGED notTake
SpecTake == InitTake /\ [][NextTake]_vars

InitConn ==
    TakeIdle /\ ConnInit /\ TeeIdle /\ RedIdle /\ PipeIdle /\ TiIdle
        /\ MoreIdle
notConn == <<takeVars, teeVars, redVars, pipeVars, tiVars, moreVars>>
NextConn ==
    \/ Connect /\ UNCHANGED notConn
    \/ ConsumerPull /\ UNCHANGED notConn
SpecConn == InitConn /\ [][NextConn]_vars

InitTee ==
    TakeIdle /\ ConnIdle /\ TeeInit /\ RedIdle /\ PipeIdle /\ TiIdle
        /\ MoreIdle
notTee == <<takeVars, connVars, redVars, pipeVars, tiVars, moreVars>>
NextTee ==
    \/ TeeConnect /\ UNCHANGED notTee
    \/ PullMain /\ UNCHANGED notTee
    \/ PullBranch /\ UNCHANGED notTee
SpecTee == InitTee /\ [][NextTee]_vars

InitReduce ==
    TakeIdle /\ ConnIdle /\ TeeIdle /\ RedInit /\ PipeIdle /\ TiIdle
        /\ MoreIdle
NextReduce ==
    ReduceNext
        /\ UNCHANGED <<takeVars, connVars, teeVars, pipeVars, tiVars, moreVars>>
SpecReduce == InitReduce /\ [][NextReduce]_vars

InitPipe ==
    TakeIdle /\ ConnIdle /\ TeeIdle /\ RedIdle /\ PipeInit /\ TiIdle
        /\ MoreIdle
NextPipe ==
    PipeCall
        /\ UNCHANGED <<takeVars, connVars, teeVars, redVars, tiVars, moreVars>>
SpecPipe == InitPipe /\ [][NextPipe]_vars

InitTakei ==
    TakeIdle /\ ConnIdle /\ TeeIdle /\ RedIdle /\ PipeIdle /\ TiInit
        /\ MoreIdle
NextTakei ==
    TakeiNext
        /\ UNCHANGED <<takeVars, connVars, teeVars, redVars, pipeVars, moreVars>>
SpecTakei == InitTakei /\ [][NextTakei]_vars

oldVars == <<takeVars, connVars, teeVars, redVars, pipeVars>>
OldIdle == TakeIdle /\ ConnIdle /\ TeeIdle /\ RedIdle /\ PipeIdle

InitDropi == OldIdle /\ TiIdle /\ DiInit /\ ChIdle /\ FlIdle
NextDropi == DropiNext /\ UNCHANGED <<oldVars, tiVars, chainVars, flatVars>>
SpecDropi == InitDropi /\ [][NextDropi]_vars

\* takei or dropi: one of the two stages is built, the other stays idle
InitIndex ==
    /\ OldIdle
    /\ ChIdle /\ FlIdle
    /\ \/ TiInit /\ DiIdle
       \/ TiIdle /\ DiInit
NextIndexSel ==
    \/ TakeiNext /\ UNCHANGED <<oldVars, moreVars>>
    \/ DropiNext /\ UNCHANGED <<oldVars, tiVars, chainVars, flatVars>>
SpecIndex == InitIndex /\ [][NextIndexSel]_vars

InitChain == OldIdle /\ TiIdle /\ DiIdle /\ ChInit /\ FlIdle
NextChain ==
    \/ ChConnect /\ UNCHANGED <<oldVars, tiVars, dropiVars, flatVars>>
    \/ ChPull /\ UNCHANGED <<oldVars, tiVars, dropiVars, flatVars>>
SpecChain == InitChain /\ [][NextChain]_vars

InitFlatten == OldIdle /\ TiIdle /\ DiIdle /\ ChIdle /\ FlInit
NextFlatten ==
    \/ FlCall /\ UNCHANGED <<oldVars, tiVars, dropiVars, chainVars>>
    \/ FlattenNext /\ UNCHANGED <<oldVars, tiVars, dropiVars, chainVars>>
SpecFlatten == InitFlatten /\ [][NextFlatten]_vars

Init == InitTake
Next == NextTake
Spec == SpecTake

(***************************************************************************)
(* Claims about take and item (SpecTake).                                  *)
(***************************************************************************)
\* a connection of the stage has completed
TakeDone == pc = "idle" /\ nconn > 0

StepNegative(s) == s.step # None /\ Val(s.step) < 0
Below0(o) == o # None /\ Val(o) < 0

\* The four cases in which a window needs the whole upstream, a bound
\* counting as present whenever it is given, 0 included
NeedsAll(s) ==
    \/ Below0(s.stop) \/ Below0(s.start)
    \/ (s.start = None /\ s.stop = None)
    \/ (s.start = None /\ StepNegative(s))
    \/ (s.stop = None /\ ~StepNegative(s))

\* The forward bound of a window that does not need the whole upstream
ForwardBound(s) == IF StepNegative(s) THEN Val(s.start) ELSE Val(s.stop)

\* C1: a take stage whose window needs only a bounded prefix, connected to a
\* finite upstream with fewer elements than the bound, raises no error and
\* then holds the window applied to all the elements the upstream had.
C1_ShortUpstreamKeepsAvailable ==
    (/\ TakeDone
     /\ kind = "take"
     /\ slice.step # Some(0)
     /\ ~NeedsAll(slice)
     /\ ~inpipe.inf
     /\ inpipe.len < ForwardBound(slice))
    => /\ result.kind = "Stream"
       /\ cache = GetSlice(Items(inpipe), slice)

AbsVal(o) == IF o = None THEN 0 ELSE IF Val(o) < 0 THEN -Val(o) ELSE Val(o)

\* C2: for a finite upstream S longer than every bound named in the window
\* and a window with a non-zero step, the content of take(start, stop, step)
\* after the connection, and the list item[start:stop:step] returns, is the
\* slice S[start:stop:step].
C2_WindowIsGenericSlice ==
    (/\ TakeDone
     /\ ~get1
     /\ slice.step # Some(0)
     /\ ~inpipe.inf
     /\ inpipe.len > AbsVal(slice.start)
     /\ inpipe.len > AbsVal(slice.stop))
    => /\ result.kind = (IF kind = "take" THEN "Stream" ELSE "list")
       /\ cache = GetSlice(Items(inpipe), slice)
       /\ result.val = GetSlice(Items(inpipe), slice)

\* C3: item[N] with N >= 0 returns the upstream's value at position N when
\* the upstream has at least N+1 values, fails with an IndexError (and no
\* other kind of error) when it has fewer, and pulls no more values than the
\* upstream had.
C3_SingleIndexOrIndexError ==
    (/\ TakeDone
     /\ kind = "item"
     /\ get1
     /\ slice.stop # None
     /\ Val(slice.stop) >= 1)
    => LET N == Val(slice.stop) - 1
       IN  /\ HasNext(inpipe, N)
                => result = [kind |-> "value", val |-> <<Elem(inpipe, N)>>]
           /\ ~HasNext(inpipe, N) => result.kind = "IndexError"
           /\ ~inpipe.inf => pulled <= inpipe.len

\* C4: a window that is none of the four whole-upstream cases (a bound of 0
\* counting as present and non-negative) makes the connection pull at most
\* the forward bound from the upstream, so that it completes on an infinite
\* upstream.
C4_BoundedWindowPullsPrefix ==
    ~NeedsAll(slice) => pulled <= ForwardBound(slice)

(***************************************************************************)
(* Claims about connections (SpecConn).                                    *)
(***************************************************************************)
\* The stages said to pull nothing while they are connected
SaidLazy == {"drop", "takei", "dropi", "map", "filter", "apply", "takewhile",
             "dropwhile", "reduce", "prepend", "append", "tee", "flatten"}

\* C5: connecting an upstream to a stage other than take / item (drop,
\* takei, dropi, map, filter, apply, takewhile, dropwhile, reduce, prepend,
\* append, tee, flatten) pulls no value from the upstream; values are pulled
\* only once a consumer pulls from the connected stage.  (A tee whose branch
\* stage is itself take / item is left out.)
C5_ConnectionPullsNothing ==
    (/\ connected
     /\ consumerPulls = 0
     /\ kindD \in SaidLazy
     /\ kindB \notin {"take", "item"})
    => srcPulled = 0

IdsBefore == {pre[s] : s \in DOMAIN pre}

\* C6, as stated: connecting an upstream Stage U to a downstream Stage D of
\* any kind, tee included, replaces D's cursor and leaves U's cursor the
\* object it was.  (item, whose connection returns no stage, is left out.)
C6_DownstreamOnlyRebound ==
    (connected /\ uIsStream /\ kindD # "item")
    => /\ iterator["D"] # pre["D"]
       /\ iterator["U"] = pre["U"]

\* C6, amended: a stage connected through Stream.__pipe__ (every kind but tee
\* and item) gets as its cursor the sequence its transform returns (for drop
\* the upstream's own iterator, else a new object) and U's cursor stays the
\* object it was; tee.__pipe__ keeps the tee's cursor and rebinds U's cursor
\* to a new branch, returning U; itemgetter.__pipe__ assigns neither cursor.
C6_CursorReboundPerPipeMethod ==
    (connected /\ uIsStream)
    => CASE kindD = "tee" ->
              /\ iterator["D"] = pre["D"]
              /\ iterator["U"] \notin IdsBefore
              /\ returned = "U"
         [] kindD = "item" ->
              /\ iterator["D"] = pre["D"]
              /\ iterator["U"] = pre["U"]
         [] OTHER ->
              /\ iterator["U"] = pre["U"]
              /\ iterator["D"] # pre["D"]
              /\ IF kindD = "drop" THEN iterator["D"] = pre["U"]
                 ELSE iterator["D"] \notin IdsBefore
              /\ returned = "D"

\* a Stream was connected to a tee: its cursor and the branch stage's moved
C6_Witness ==
    /\ connected
    /\ uIsStream
    /\ kindD = "tee"
    /\ iterator["U"] # pre["U"]
    /\ iterator["B"] # pre["B"]
    /\ iterator["D"] = pre["D"]

(***************************************************************************)
(* Claims about tee (SpecTee).                                             *)
(***************************************************************************)
IsPrefix(a, b) == Len(a) <= Len(b) /\ a = SubSeq(b, 1, Len(a))
TeeTest(x) == Holds(teePred, x)

\* C7: after the connection to tee(filter(pred)), in every interleaving of
\* pulls on the main line and on the branch, each side has received exactly
\* the upstream's values up to its own position, in order (the branch those
\* that pass the filter), whatever the other side pulled; an exhausted side
\* has received all of them; every upstream position was pulled once, and the
\* number of upstream pulls is the larger of the two positions.
C7_TeeSidesIndependent ==
    teePc = "teed"
    => /\ out["main"] = SubSeq(teeSrc, 1, pos["main"])
       /\ out["branch"] = SelectSeq(SubSeq(teeSrc, 1, pos["branch"]), TeeTest)
       /\ \A s \in {"main", "branch"} : ended[s] => pos[s] = Len(teeSrc)
       /\ srcLog = [k \in 1..srcPos |-> k]
       /\ srcPos = Max(pos["main"], pos["branch"])

\* the branch ran to exhaustion, dropping a value, while the main line had
\* pulled a single value: the rest waits in the buffer
C7_Witness ==
    /\ teePc = "teed"
    /\ Len(teeSrc) >= 3
    /\ ended["branch"]
    /\ Len(out["branch"]) < Len(teeSrc)
    /\ pos["main"] = 1
    /\ Len(buf) = Len(teeSrc) - 1

(***************************************************************************)
(* Claims about reduce (SpecReduce).                                       *)
(***************************************************************************)
RECURSIVE ScanFrom(_, _, _)
ScanFrom(f, a, xs) ==
    IF xs = <<>> THEN <<a>>
    ELSE <<a>> \o ScanFrom(f, Apply2(f, a, xs[1]), Tail(xs))

\* init, f(init, x1), ... when an initial value is supplied, else
\* x1, f(x1, x2), ...
ScanExpected ==
    IF initval # None THEN ScanFrom(function, Val(initval), redSrc)
    ELSE IF redSrc = <<>> THEN <<>>
    ELSE ScanFrom(function, redSrc[1], Tail(redSrc))

\* C8: reduce(f, init) emits init, f(init, x1), f(f(init, x1), x2), ... for
\* every supplied initial value, falsy ones such as 0 included; reduce(f)
\* emits x1, f(x1, x2), ...; the output ends when the upstream is exhausted.
C8_ReduceScansFromInitval ==
    /\ IsPrefix(redOut, ScanExpected)
    /\ redPc = "done" => redOut = ScanExpected

(***************************************************************************)
(* Claims about Stream.pipe (SpecPipe).                                    *)
(***************************************************************************)
PipeCalled == pipeRes.obj # "none"

\* C9, as stated: a right operand without __pipe__ that is callable is
\* invoked with the upstream and its result comes back wrapped in a Stream.
C9_CallableResultWrapped ==
    (PipeCalled /\ ~outpipe.hasPipe /\ outpipe.hasCall)
    => pipeRes.obj = "Stream"

\* C9, amended: a right operand without __pipe__ that is callable is invoked
\* with the upstream and what it returns is returned as it is; __pipe__ is
\* used whenever it exists, callable or not; an operand with neither is
\* returned unchanged if it is a Stream and is otherwise wrapped in a new
\* Stream: over its own elements when it is truthy and iterable, over
\* nothing when it is falsy.
C9_PipeDispatch ==
    PipeCalled
    => /\ outpipe.hasPipe => pipeRes.via = "__pipe__"
       /\ (~outpipe.hasPipe /\ outpipe.hasCall)
            => /\ pipeRes.via = "__call__"
               /\ pipeRes.obj = "raw"
               /\ pipeRes.ty = ApplyFn(outpipe.fn, pipeIn).ty
               /\ pipeRes.val = ApplyFn(outpipe.fn, pipeIn).val
       /\ (~outpipe.hasPipe /\ ~outpipe.hasCall /\ outpipe.isStream)
            => pipeRes.obj = "outpipe"
       /\ (~outpipe.hasPipe /\ ~outpipe.hasCall /\ ~outpipe.isStream
             /\ outpipe.truth /\ outpipe.iterable)
            => /\ pipeRes.obj = "Stream"
               /\ pipeRes.val = outpipe.items
       /\ (~outpipe.hasPipe /\ ~outpipe.hasCall /\ ~outpipe.isStream
             /\ ~outpipe.truth)
            => /\ pipeRes.obj = "Stream"
               /\ pipeRes.val = <<>>

\* s >> next on a non-empty s: the first value comes back, not a Stream
C9_Witness ==
    /\ PipeCalled
    /\ ~outpipe.hasPipe
    /\ outpipe.hasCall
    /\ outpipe.fn = "next"
    /\ pipeIn # <<>>
    /\ pipeRes.obj = "raw"
    /\ pipeRes.val = <<pipeIn[1]>>

(***************************************************************************)
(* Claims about takei (SpecTakei).                                         *)
(***************************************************************************)
HasPosition(j) == j >= 0 /\ HasNext(mainSeq, j)

\* The elements at the accepted indexes of is, an index being accepted iff it
\* is greater than the last accepted one (a) and the main sequence has that
\* position
RECURSIVE PickAfterAccepted(_, _)
PickAfterAccepted(is, a) ==
    IF is = <<>> THEN <<>>
    ELSE IF is[1] > a /\ HasPosition(is[1])
    THEN <<Elem(mainSeq, is[1])>> \o PickAfterAccepted(Tail(is), is[1])
    ELSE PickAfterAccepted(Tail(is), a)

\* The same, an index being accepted iff it is greater than every index
\* before it (m: the greatest so far) and the main sequence has that position
RECURSIVE PickAfterEvery(_, _)
PickAfterEvery(is, m) ==
    IF is = <<>> THEN <<>>
    ELSE IF is[1] > m
    THEN (IF HasPosition(is[1]) THEN <<Elem(mainSeq, is[1])>> ELSE <<>>)
            \o PickAfterEvery(Tail(is), is[1])
    ELSE PickAfterEvery(Tail(is), m)

\* C10, as stated: takei(I) on M emits exactly the M[j] of the accepted
\* indexes j of I, an index being accepted iff it is greater than the
\* previously accepted one (initially -1) and M has a position j.
C10_TakeiPicksAfterAccepted ==
    tiPc = "done" => tiOut = PickAfterAccepted(indices, -1)

\* C10, amended: takei(I) on M emits exactly the M[j], in increasing j, of
\* the accepted indexes j of I, an index being accepted iff it is greater
\* than every index before it in I (and than -1) and M has a position j; the
\* other indexes are skipped; on an infinite M the output is that finite
\* list.
C10_TakeiPicksAfterEvery ==
    /\ IsPrefix(tiOut, PickAfterEvery(indices, -1))
    /\ tiPc = "done" => tiOut = PickAfterEvery(indices, -1)

\* an infinite main sequence, indexes with a negative and a repeated one:
\* the output has ended with the two accepted elements
C10_Witness ==
    /\ tiPc = "done"
    /\ mainSeq.inf
    /\ Len(tiOut) = 2
    /\ \E k \in 1..Len(indices) : indices[k] < 0
    /\ \E k \in 2..Len(indices) : indices[k] = indices[k - 1]

(***************************************************************************)
(* Claims about dropi (SpecDropi).                                         *)
(***************************************************************************)
\* The accepted indexes of is: those greater than the last accepted one (a)
RECURSIVE AcceptedIdx(_, _)
AcceptedIdx(is, a) ==
    IF is = <<>> THEN {}
    ELSE IF is[1] > a THEN {is[1]} \cup AcceptedIdx(Tail(is), is[1])
    ELSE AcceptedIdx(Tail(is), a)

\* The elements of the main sequence at positions k..n-1 that are not in dropped
RECURSIVE KeepFrom(_, _, _)
KeepFrom(k, n, dropped) ==
    IF k >= n THEN <<>>
    ELSE (IF k \in dropped THEN <<>> ELSE <<Elem(diMain, k)>>)
            \o KeepFrom(k + 1, n, dropped)

\* C11: dropi(I) on M emits, in order, every element of M except those at
\* the accepted indexes of I (an index is accepted iff it is greater than the
\* previously accepted one, initially -1); negative and repeated indexes
\* remove nothing; once I is exhausted every remaining element is emitted,
\* also when I is empty; the output ends with M.
C11_DropiDropsAccepted ==
    diPc \in {"yielded", "done"}
    => /\ diOut = KeepFrom(0, diMainPos, AcceptedIdx(diIndices, -1))
       /\ diPc = "done" => (~diMain.inf /\ diMainPos = diMain.len)

\* a finite main sequence ran out after an accepted index removed an element,
\* a negative and a repeated index removed none, and the index stream ran out
\* before the main sequence did
C11_Witness ==
    /\ diPc = "done"
    /\ diMain.len = MaxMainLen
    /\ Len(diOut) = MaxMainLen - 1
    /\ Len(diIndices) >= 3
    /\ diExhausted
    /\ \E k \in 1..Len(diIndices) : diIndices[k] < 0
    /\ \E k \in 2..Len(diIndices) : diIndices[k] = diIndices[k - 1]
    /\ diOut[Len(diOut)] = Elem(diMain, MaxMainLen - 1)

(***************************************************************************)
(* Claims about pipelines (SpecChain).                                     *)
(***************************************************************************)
\* what a map or a filter stage makes of a whole list
RECURSIVE Transform(_, _)
Transform(st, xs) ==
    IF xs = <<>> THEN <<>>
    ELSE IF st.kind = "map"
    THEN <<Apply1(st.fn, xs[1])>> \o Transform(st, Tail(xs))
    ELSE (IF Holds(st.fn, xs[1]) THEN <<xs[1]>> ELSE <<>>)
            \o Transform(st, Tail(xs))

IsPrefix2(a, b) == Len(a) <= Len(b) /\ a = SubSeq(b, 1, Len(a))
MapOrFilter(st) == st.kind \in {"map", "filter"}
ThroughAB == chPlan = << <<"S1", "A">>, <<"A", "B">> >>

\* C12: for a finite source S and stages A and B, each a map or a filter,
\* materializing S >> A >> B yields B's transform of A's transform of S,
\* in source order.
C12_MapFilterCompose ==
    (ThroughAB /\ MapOrFilter(chStage.A) /\ MapOrFilter(chStage.B))
    => LET want == Transform(chStage.B,
                             Transform(chStage.A, Items(chSrc.S1)))
       IN  /\ IsPrefix2(chOut, want)
           /\ chPc = "done" => chOut = want

\* a map after a filter that dropped an element delivered two values
C12_Witness ==
    /\ ThroughAB
    /\ chStage.A.kind = "filter" /\ chStage.B.kind = "map"
    /\ chPc = "done"
    /\ Len(chOut) = 2
    /\ chSrc.S1.len = MaxChLen

(***************************************************************************)
(* Claims about flatten (SpecFlatten).                                     *)
(***************************************************************************)
\* the integers and texts of a sequence of elements, depth first, left to
\* right
RECURSIVE Leaves(_)
Leaves(f) ==
    IF f = <<>> THEN <<>>
    ELSE (IF f[1].t = "list" THEN Leaves(f[1].c) ELSE <<f[1]>>)
            \o Leaves(Tail(f))

RECURSIVE TextsOf(_)
TextsOf(f) ==
    IF f = <<>> THEN <<>>
    ELSE (IF f[1].t = "text" THEN <<f[1]>> ELSE <<>>) \o TextsOf(Tail(f))

RECURSIVE Depth(_)
Depth(f) ==
    IF f = <<>> THEN 0
    ELSE Max(IF f[1].t = "list" THEN 1 + Depth(f[1].c) ELSE 0, Depth(Tail(f)))

\* C13: flattening the output of flatten(x) again yields the same sequence
\* as flatten(x), for any finite nested x; a text element is emitted whole,
\* never descended into, at any depth: the texts of the output are the texts
\* of x, one for one, and the output holds no list.
C13_FlattenIdempotent ==
    /\ (flCalls = 2 /\ flPc = "done") => flOut = flFirst
    /\ (flCalls >= 1 /\ flPc = "done") =>
            /\ TextsOf(flOut) = TextsOf(Leaves(flX))
            /\ \A k \in 1..Len(flOut) : flOut[k].t \in {"int", "text"}

\* the second generator ended on the output of the first; the input held a
\* text two lists deep, and an integer
C13_Witness ==
    /\ flCalls = 2 /\ flPc = "done"
    /\ \E k \in 1..Len(flOut) : flOut[k].t = "int"
    /\ \E k \in 1..Len(flX) :
          /\ flX[k].t = "list"
          /\ \E j \in 1..Len(flX[k].c) :
                /\ flX[k].c[j].t = "list"
                /\ TextsOf(flX[k].c[j].c) # <<>>

\* the list a path leads to: f itself, or the list at position path[1] of f
\* followed further
RECURSIVE ListAt(_, _)
ListAt(f, path) ==
    IF path = <<>> THEN f ELSE ListAt(f[path[1]].c, Tail(path))

\* the leaves a cursor has yet to deliver, and those of the cursors below it
RECURSIVE RestLeaves(_, _)
RestLeaves(cur, stack) ==
    Leaves(SubSeq(cur.items, cur.pos + 1, Len(cur.items)))
        \o (IF stack = <<>> THEN <<>>
            ELSE RestLeaves(stack[Len(stack)],
                            SubSeq(stack, 1, Len(stack) - 1)))

CurExhausted == flCur.pos = Len(flCur.items)

\* elements at all depths, and lists, the input itself included
RECURSIVE Nodes(_)
Nodes(f) ==
    IF f = <<>> THEN 0
    ELSE 1 + (IF f[1].t = "list" THEN Nodes(f[1].c) ELSE 0) + Nodes(Tail(f))
RECURSIVE Lists(_)
Lists(f) ==
    IF f = <<>> THEN 0
    ELSE (IF f[1].t = "list" THEN 1 + Lists(f[1].c) ELSE 0) + Lists(Tail(f))
Passes(f) == Nodes(f) + Lists(f) + 1

\* the stack is the chain of cursors that enclose the current one, each
\* suspended just after the list it descended into
C17_StackIsEnclosing ==
    /\ Len(flStack) = Len(flCur.path)
    /\ flCur.items = ListAt(flInput, flCur.path)
    /\ \A k \in 1..Len(flStack) :
          /\ flStack[k].path = SubSeq(flCur.path, 1, k - 1)
          /\ flStack[k].items = ListAt(flInput, flStack[k].path)
          /\ flStack[k].pos = flCur.path[k]

\* C17: flatten emits the integer and text leaves of a finite nested input
\* depth first, left to right; at every step the stack holds exactly the
\* suspended cursors that enclose the current one, so its size is the
\* current depth; a cursor is popped only when the current one is exhausted;
\* the output ends exactly when the current cursor is exhausted with the
\* stack empty, and that happens within Passes(input) passes of the loop.
C17_FlattenDepthFirst ==
    /\ [](flPc \in {"run", "done"} =>
            /\ flOut \o RestLeaves(flCur, flStack) = Leaves(flInput)
            /\ C17_StackIsEnclosing
            /\ flPc = "done" =>
                  /\ flOut = Leaves(flInput)
                  /\ flSteps = Passes(flInput)
            /\ flPc = "run" => (flSteps < Passes(flInput) /\ ENABLED FlattenNext))
    /\ [][flPc = "run" =>
            /\ Len(flStack') < Len(flStack) => CurExhausted
            /\ flPc' = "done" <=> (CurExhausted /\ flStack = <<>>)]_vars

\* the generator ended after it had been three lists deep and had resumed an
\* enclosing cursor that still held an element
C17_Witness ==
    /\ flPc = "done" /\ flCalls = 1
    /\ Depth(flX) >= 3
    /\ Len(flOut) >= 2
    /\ flX[Len(flX)].t # "list"

(***************************************************************************)
(* Claims about prepend and append (SpecChain).                            *)
(***************************************************************************)
OneStage == chPlan = << <<"S1", "A">> >>
OwnOfA == OwnItems("A", chStage.A.own)
\* elements pulled so far from the upstream and from the stage's own sequence
PulledFromU == chHeap[1].pos
PulledFromP == chHeap[3].pos

\* C14: prepend(P) connected to U yields P's elements in order, then U's, and
\* pulls nothing from U until P is exhausted; append(P) connected to a finite
\* U yields U's elements in order, then P's, and pulls nothing from P until
\* U is exhausted.
C14_PrependAppendOrder ==
    (OneStage /\ chDone = 1) =>
        /\ chStage.A.kind = "prepend" =>
              LET want == OwnOfA \o Items(chSrc.S1)
              IN  /\ IsPrefix2(chOut, want)
                  /\ chPc = "done" => chOut = want
                  /\ PulledFromU > 0 => PulledFromP = Len(OwnOfA)
                  /\ Len(chOut) <= Len(OwnOfA) => PulledFromU = 0
        /\ chStage.A.kind = "append" =>
              LET want == Items(chSrc.S1) \o OwnOfA
              IN  /\ IsPrefix2(chOut, want)
                  /\ chPc = "done" => chOut = want
                  /\ PulledFromP > 0 => PulledFromU = chSrc.S1.len
                  /\ Len(chOut) <= chSrc.S1.len => PulledFromP = 0

\* a prepend stage delivered its two elements, then a first element of a
\* longer upstream
C14_Witness ==
    /\ OneStage /\ chStage.A.kind = "prepend"
    /\ chStage.A.own = MaxOwn
    /\ chSrc.S1.len >= 2
    /\ Len(chOut) = MaxOwn + 1
    /\ PulledFromU = 1

(***************************************************************************)
(* Claims about the end of takei's and dropi's output (SpecIndex).         *)
(***************************************************************************)
\* next(i) on the main sequence raised StopIteration: the position counter
\* had been advanced for an element that was not there
TakeiMainSignalled == counter = mainPos + 1 /\ ~HasNext(mainSeq, mainPos)
DropiMainSignalled == diCounter = diMainPos + 1 /\ ~HasNext(diMain, diMainPos)

\* C15, as stated: neither takei nor dropi ends its output on its own; for
\* both, the output ends only when the main sequence is exhausted; the
\* exhaustion of the index stream never ends the output.
C15_EndsOnlyWithMain ==
    /\ tiPc = "done" => ~HasNext(mainSeq, mainPos)
    /\ diPc = "done" => ~HasNext(diMain, diMainPos)

\* C15, amended: dropi's output ends only when the main sequence is
\* exhausted, never because the index stream is; takei's output ends when a
\* pull finds the main sequence or the index stream exhausted.
C15_DropiEndsWithMainTakeiWithEither ==
    /\ diPc = "done" => DropiMainSignalled
    /\ (diExhausted /\ HasNext(diMain, diMainPos)) => diPc # "done"
    /\ tiPc = "done" => (TakeiMainSignalled \/ indexPos = Len(indices))

\* takei ended after two outputs with its index stream used up and the main
\* sequence not exhausted
C15_Witness ==
    /\ tiPc = "done"
    /\ Len(tiOut) = 2
    /\ indexPos = Len(indices)
    /\ HasNext(mainSeq, mainPos)

(***************************************************************************)
(* Claims about what reduce pulls (SpecReduce).                            *)
(***************************************************************************)
\* C16: reduce emits each accumulated value before it pulls the next
\* upstream value: when its k-th output is delivered, exactly k upstream
\* values have been pulled if no initial value was supplied, and exactly k-1
\* if one was; so a side-effecting source behind reduce(f) and item[:n] is
\* invoked exactly n times, with no prefetch.
C16_ReducePullsPerOutput ==
    redPc = "yielded"
    => redPos = Len(redOut) - (IF initval = None THEN 0 ELSE 1)

\* The same count where the initial value is absent or true in Python's sense
ReducePullsWhenInitvalTruthy ==
    (redPc = "yielded" /\ (initval = None \/ truthy(initval)))
    => redPos = Len(redOut) - (IF initval = None THEN 0 ELSE 1)

(***************************************************************************)
(* Claims about connecting a stage again (SpecTake, SpecChain).            *)
(***************************************************************************)
\* a take stage with a forward window, connected to a finite upstream
ForwardTake ==
    /\ kind = "take"
    /\ slice.step # Some(0) /\ ~StepNegative(slice)
    /\ ~inpipe.inf

\* C18: connection rebinds rather than composes: for a stage D whose
\* transform ignores its own cursor (take among them), after connecting U1
\* to D and then U2 to D, both results are the object D and pulling from it
\* yields D's transform of U2 only.
C18_SecondConnectionOnly ==
    (TakeDone /\ nconn = 2 /\ ForwardTake)
    => /\ result.kind = "Stream"
       /\ takeIterator = GetSlice(Items(inpipe), slice)

\* The same on the first connection of a take whose upstream is as long as
\* the window's bound
FirstConnectionOfLongUpstream ==
    (TakeDone /\ nconn = 1 /\ ForwardTake
        /\ (NeedsAll(slice) \/ inpipe.len >= ForwardBound(slice)))
    => /\ result.kind = "Stream"
       /\ takeIterator = GetSlice(Items(inpipe), slice)

\* The same on a second connection whose upstream is as long as the bound
SecondConnectionOfLongUpstream ==
    (TakeDone /\ nconn = 2 /\ ForwardTake
        /\ (NeedsAll(slice) \/ inpipe.len >= ForwardBound(slice)))
    => /\ result.kind = "Stream"
       /\ takeIterator = GetSlice(Items(inpipe), slice)

\* Rebinding for map and filter: U1 then U2 connected to A yields A's
\* transform of U2; S >> (A >> B) yields B's transform of S
RebindLazyStages ==
    /\ (chPlan = << <<"S1", "A">>, <<"S2", "A">> >> /\ chPc = "done"
           /\ MapOrFilter(chStage.A))
       => (chRes = "A" /\ chOut = Transform(chStage.A, Items(chSrc.S2)))
    /\ (chPlan = << <<"A", "B">>, <<"S1", "B">> >> /\ chPc = "done"
           /\ MapOrFilter(chStage.A) /\ MapOrFilter(chStage.B))
       => (chRes = "B" /\ chOut = Transform(chStage.B, Items(chSrc.S1)))

\* C19: the content of a take stage after a connection is a function of that
\* connection's upstream and the window only, whatever was connected before:
\* no element of a previously connected upstream appears in the content
\* after a later connection.
C19_ContentFromThisUpstream ==
    (TakeDone /\ kind = "take")
    => \A k \in 1..Len(cache) :
          \E j \in 0..(pulled - 1) : cache[k] = Elem(inpipe, j)

====
